---- MODULE Spec2Model ----
(***************************************************************************)
(* Model of the Lardi-Trans API client (src/client.go).                    *)
(*                                                                         *)
(* A Client holds a Config and a transport handle.  Every public operation *)
(* builds one request, hands it to the transport's Do, and turns the       *)
(* transport's answer into a (result, error) pair.  The transport is the   *)
(* environment: between the moment a call hands its request to Do and the  *)
(* moment Do returns, other callers may run.                               *)
(*                                                                         *)
(* Go values are modelled as follows.                                      *)
(*   - an error is the chain of its frames, outermost first; <<>> is nil;  *)
(*   - a float64 is [nan, v]; time.Duration is counted in seconds;         *)
(*   - a nil and an empty slice are both <<>> (the code only takes len);   *)
(*   - a marshalled JSON object is a function from its keys to values;     *)
(*   - a response body is a tagged JSON value (see the Body definitions).  *)
(***************************************************************************)
EXTENDS Integers, Sequences, FiniteSets, TLC

(***************************************************************************)
(* Types: the structs of the package and the records the model adds.       *)
(***************************************************************************)
ConfigType    == [BaseURL : STRING, APIKey : STRING, Timeout : Int, Language : STRING]
ClientType    == [config : ConfigType, http : [Timeout : Int]]
APIErrorType  == [Status : Int, Err : STRING, Message : STRING]
ErrorFrame    == [type : {"errorString", "wrapError", "APIError", "jsonError"},
                  msg : STRING, api : APIErrorType]
\* what a public operation returns beside its error: nil, a *CargoResponse,
\* a *Response, or a list of Response / ResponseContacts records
ResultType    == [kind : {"nil", "CargoResponse", "Response", "list"}, ID : Int,
                  Name : STRING, items : Seq([ID : Int, Name : STRING])]
FloatType     == [nan : BOOLEAN, val : Int]
PaymentFormType == [ID : Int, Vat : BOOLEAN]
CargoPackType   == [ID : Int, Count : Int]
LoadParamsType  == [TownName : STRING, AreaID : Int, CountrySign : STRING,
                    RegionID : Int, PostCodes : Seq(STRING)]
CargoRequestType ==
    [ContactID : Int, DateFrom : STRING, DateTo : STRING, PaymentValue : Int,
     PaymentCurrencyID : Int, PaymentUnitID : Int, PaymentMomentID : Int,
     CargoBodyTypeIDs : Seq(Int), CargoPackaging : Seq(CargoPackType),
     PaymentForms : Seq(PaymentFormType), LorryAmount : Int, LoadTypes : Seq(Int),
     Groupage : BOOLEAN, ContentName : STRING, SizeMass : FloatType,
     SizeVolume : FloatType, WaypointListSource : Seq(LoadParamsType),
     WaypointListTarget : Seq(LoadParamsType)]
\* a JSON scalar, and a JSON value as far as the decoders look at it: an
\* object of scalars or an array of such objects
ScalarType    == [jtype : {"number", "string"}, num : Int, str : STRING]
ObjectType    == UNION {[K -> ScalarType] : K \in SUBSET STRING}
JSONType      == [tag : {"eof", "invalid", "null", "object", "array"},
                  obj : ObjectType, arr : Seq(ObjectType)]
\* what the transport's Do returns: a failure, or a status code and a body
HTTPResponseType == [fail : BOOLEAN, StatusCode : Int, Body : JSONType]
\* a parsed URL; a base URL that ends in a query; a request
URLType       == [ok : BOOLEAN, loc : STRING, query : UNION {[K -> Seq(STRING)] :
                                                            K \in SUBSET STRING}]
BaseQueryType == [loc : STRING, key : STRING, value : STRING]
RequestType   == [loc : STRING, query : UNION {[K -> Seq(STRING)] : K \in SUBSET STRING},
                  method : {"", "GET", "POST"},
                  header : UNION {[K -> STRING] : K \in SUBSET STRING},
                  body : [present : BOOLEAN, json : ObjectType]]
\* a call of a public operation, and what it yields
CallType      == [op : STRING, ctx : {"", "nil", "background"}, req : CargoRequestType,
                  name : STRING]
OutcomeType   == [sent : Seq(RequestType), result : ResultType, err : Seq(ErrorFrame)]
RoundTripType == [sent : Seq(RequestType), err : Seq(ErrorFrame), v : ResultType]

(***************************************************************************)
(* Bounds                                                                  *)
(***************************************************************************)
NumCallers == 2          \* goroutines that call the one Client concurrently

Callers == 1..NumCallers

(***************************************************************************)
(* Constants of the package                                                *)
(***************************************************************************)
defaultBaseURL == "https://api.lardi-trans.com"
defaultTimeout == 30     \* 30 * time.Second, in seconds

pathCargo        == "/v2/proposals/my/add/cargo"
pathCurrencies   == "/v2/references/currencies"
pathUnits        == "/v2/references/payment/units"
pathMoments      == "/v2/references/payment/moments"
pathTypes        == "/v2/references/body/types"
pathPackage      == "/v2/references/cargo/package"
pathTypesPayment == "/v2/references/payment/types"
pathLoadTypes    == "/v2/references/load/types"
pathAreas        == "/v2/references/areas"
pathContacts     == "/v2/users/user/contacts"

EmptyMap == [x \in {} |-> 0]

\* a map given by its pairs (k1 :> v1 @@ k2 :> v2 ...), as a function on its keys
Map(f) == [x \in DOMAIN f |-> f[x]]

(***************************************************************************)
(* Config, Client, NewClient                                               *)
(***************************************************************************)
NewClient_KeepsLanguage(config) ==
    LET c1 == IF config.BaseURL = "" THEN [config EXCEPT !.BaseURL = defaultBaseURL]
              ELSE config
        c2 == IF c1.Timeout = 0 THEN [c1 EXCEPT !.Timeout = defaultTimeout] ELSE c1
    IN  [config |-> c2, http |-> [Timeout |-> c2.Timeout]]

NewClient(config) ==
    LET c1 == IF config.BaseURL = "" THEN [config EXCEPT !.BaseURL = defaultBaseURL]
              ELSE config
        c2 == IF c1.Timeout = 0 THEN [c1 EXCEPT !.Timeout = defaultTimeout] ELSE c1
        c3 == IF c2.Language = "" THEN [c2 EXCEPT !.Language = "uk"] ELSE c2
    IN  [config |-> c3, http |-> [Timeout |-> c3.Timeout]]

(***************************************************************************)
(* Errors: a chain of frames, outermost first.                             *)
(***************************************************************************)
NoAPIError == [Status |-> 0, Err |-> "", Message |-> ""]

\* errors.New / fmt.Errorf without %w: one frame of type *errors.errorString
errorString(msg) == <<[type |-> "errorString", msg |-> msg, api |-> NoAPIError]>>

\* fmt.Errorf(msg + ": %w", err): a *fmt.wrapError frame in front of err's chain
wrapError(msg, err) == <<[type |-> "wrapError", msg |-> msg, api |-> NoAPIError]>> \o err

\* &apiErr: one frame of type *APIError holding the decoded record
APIError(e) == <<[type |-> "APIError", msg |-> "API error", api |-> e]>>

nil == <<>>

(***************************************************************************)
(* CargoRequest, Validate, json.Marshal                                    *)
(***************************************************************************)
Float(x) == [nan |-> FALSE, val |-> x]
NaN      == [nan |-> TRUE, val |-> 0]

\* the sixteen fields tagged omitempty
OptionalFields ==
    {"ContactID", "DateFrom", "DateTo", "PaymentValue", "PaymentCurrencyID",
     "PaymentUnitID", "PaymentMomentID", "CargoBodyTypeIDs", "CargoPackaging",
     "PaymentForms", "LorryAmount", "LoadTypes", "Groupage", "ContentName",
     "SizeMass", "SizeVolume"}

\* the zero value of CargoRequest
ZeroCargoRequest ==
    [ContactID |-> 0, DateFrom |-> "", DateTo |-> "", PaymentValue |-> 0,
     PaymentCurrencyID |-> 0, PaymentUnitID |-> 0, PaymentMomentID |-> 0,
     CargoBodyTypeIDs |-> <<>>, CargoPackaging |-> <<>>, PaymentForms |-> <<>>,
     LorryAmount |-> 0, LoadTypes |-> <<>>, Groupage |-> FALSE, ContentName |-> "",
     SizeMass |-> Float(0), SizeVolume |-> Float(0),
     WaypointListSource |-> <<>>, WaypointListTarget |-> <<>>]

Validate_SourceOnly(r) ==
    IF Len(r.WaypointListSource) = 0
    THEN errorString("waypointListSource is required")
    ELSE nil

Validate(r) ==
    IF Len(r.WaypointListSource) = 0
    THEN errorString("waypointListSource is required")
    ELSE IF Len(r.WaypointListTarget) = 0
         THEN errorString("waypointListTarget is required")
         ELSE nil

\* encoding/json's isEmptyValue, by the kind of the Go field
isEmptyValue(kind, v) ==
    CASE kind = "int"    -> v = 0
      [] kind = "string" -> v = ""
      [] kind = "bool"   -> v = FALSE
      [] kind = "slice"  -> Len(v) = 0
      [] kind = "float"  -> ~v.nan /\ v.val = 0

\* a field whose tag lacks omitempty: written whatever its value
always(key, kind, v, enc) == key :> enc

\* one struct field with tag `json:"key,omitempty"`, value already encoded
omitempty(key, kind, v, enc) ==
    IF isEmptyValue(kind, v) THEN EmptyMap ELSE key :> enc

MarshalPaymentForm(f) ==
    Map(omitempty("id", "int", f.ID, f.ID) @@ omitempty("vat", "bool", f.Vat, f.Vat))

MarshalCargoPack(k) ==
    Map(omitempty("id", "int", k.ID, k.ID) @@ omitempty("count", "int", k.Count, k.Count))

MarshalLoadParams(w) ==
    [townName |-> w.TownName, areaId |-> w.AreaID, countrySign |-> w.CountrySign,
     regionId |-> w.RegionID, postCode |-> w.PostCodes]

\* json.Marshal fails on a float that is NaN (or infinite)
MarshalFails(r) == r.SizeMass.nan \/ r.SizeVolume.nan

\* the JSON object json.Marshal writes for a CargoRequest, field by field
MarshalCargoRequest(r) == Map(
       omitempty("contactId", "int", r.ContactID, r.ContactID)
    @@ omitempty("dateFrom", "string", r.DateFrom, r.DateFrom)
    @@ omitempty("dateTo", "string", r.DateTo, r.DateTo)
    @@ omitempty("paymentPrice", "int", r.PaymentValue, r.PaymentValue)
    @@ omitempty("paymentCurrencyId", "int", r.PaymentCurrencyID, r.PaymentCurrencyID)
    @@ omitempty("paymentUnitId", "int", r.PaymentUnitID, r.PaymentUnitID)
    @@ omitempty("paymentMomentId", "int", r.PaymentMomentID, r.PaymentMomentID)
    @@ omitempty("cargoBodyTypeIds", "slice", r.CargoBodyTypeIDs, r.CargoBodyTypeIDs)
    @@ omitempty("cargoPackaging", "slice", r.CargoPackaging,
                 [i \in 1..Len(r.CargoPackaging) |-> MarshalCargoPack(r.CargoPackaging[i])])
    @@ omitempty("paymentForms", "slice", r.PaymentForms,
                 [i \in 1..Len(r.PaymentForms) |-> MarshalPaymentForm(r.PaymentForms[i])])
    @@ omitempty("lorryAmount", "int", r.LorryAmount, r.LorryAmount)
    @@ omitempty("loadTypes", "slice", r.LoadTypes, r.LoadTypes)
    @@ omitempty("groupage", "bool", r.Groupage, r.Groupage)
    @@ omitempty("contentName", "string", r.ContentName, r.ContentName)
    @@ omitempty("sizeMass", "float", r.SizeMass, r.SizeMass)
    @@ omitempty("sizeVolume", "float", r.SizeVolume, r.SizeVolume)
    @@ "waypointListSource" :> [i \in 1..Len(r.WaypointListSource) |-> MarshalLoadParams(r.WaypointListSource[i])]
    @@ "waypointListTarget" :> [i \in 1..Len(r.WaypointListTarget) |-> MarshalLoadParams(r.WaypointListTarget[i])])

\* a request body: absent (GET) or the marshalled object (POST)
NoBody == [present |-> FALSE, json |-> EmptyMap]
Body(obj) == [present |-> TRUE, json |-> obj]

(***************************************************************************)
(* Requests: http.NewRequestWithContext, then doRequest up to c.http.Do    *)
(***************************************************************************)
\* base URLs url.Parse rejects ("missing protocol scheme")
InvalidBaseURLs == {"://bad"}

\* base URLs that already end in a query string: the path appended to them
\* lands in the value of the last query parameter
BaseURLQuery ==
    "http://proxy/lardi?language=en" :>
        [loc |-> "http://proxy/lardi", key |-> "language", value |-> "en"]

\* url.Parse(BaseURL + path), with the query as url.Values (key -> list)
urlParse(base, path) ==
    IF base \in InvalidBaseURLs
    THEN [ok |-> FALSE, loc |-> "", query |-> EmptyMap]
    ELSE IF base \in DOMAIN BaseURLQuery
         THEN [ok |-> TRUE, loc |-> BaseURLQuery[base].loc,
               query |-> BaseURLQuery[base].key :> <<BaseURLQuery[base].value \o path>>]
         ELSE [ok |-> TRUE, loc |-> base \o path, query |-> EmptyMap]

NoRequest == [loc |-> "", query |-> EmptyMap, method |-> "", header |-> EmptyMap,
              body |-> NoBody]

\* http.NewRequestWithContext(ctx, method, url, body)
NewRequestWithContext(ctx, method, base, path, body) ==
    IF ctx = "nil"
    THEN [req |-> NoRequest, err |-> errorString("net/http: nil Context")]
    ELSE IF ~urlParse(base, path).ok
         THEN [req |-> NoRequest, err |-> errorString("parse url")]
         ELSE [req |-> [loc |-> urlParse(base, path).loc,
                        query |-> urlParse(base, path).query,
                        method |-> method, header |-> EmptyMap, body |-> body],
               err |-> nil]

\* http.Header.Set: replaces the values of the key
HeaderSet(h, key, value) ==
    [x \in DOMAIN h \cup {key} |-> IF x = key THEN value ELSE h[x]]

\* url.Values.Add: appends to the values of the key
ValuesAdd(q, key, value) ==
    [x \in DOMAIN q \cup {key} |->
        IF x # key THEN q[x]
        ELSE IF key \in DOMAIN q THEN Append(q[key], value) ELSE <<value>>]

setRequestFields_BearerScheme(c, req) ==
    [req EXCEPT
        !.header = HeaderSet(HeaderSet(@, "Authorization", "Bearer " \o c.config.APIKey),
                             "Content-Type", "application/json"),
        !.query  = ValuesAdd(@, "language", c.config.Language)]

\* doRequest, before the transport is invoked: headers and language parameter
setRequestFields(c, req) ==
    [req EXCEPT
        !.header = HeaderSet(HeaderSet(@, "Authorization", c.config.APIKey),
                             "Content-Type", "application/json"),
        !.query  = ValuesAdd(@, "language", c.config.Language)]

(***************************************************************************)
(* Response bodies and json.Decoder.Decode                                 *)
(***************************************************************************)
Num(n) == [jtype |-> "number", num |-> n, str |-> ""]
Str(x) == [jtype |-> "string", num |-> 0, str |-> x]

JEOF      == [tag |-> "eof",     obj |-> EmptyMap, arr |-> <<>>]   \* empty body
JInvalid  == [tag |-> "invalid", obj |-> EmptyMap, arr |-> <<>>]   \* not JSON
JNull     == [tag |-> "null",    obj |-> EmptyMap, arr |-> <<>>]
JObject(o) == [tag |-> "object", obj |-> Map(o), arr |-> <<>>]
JArray(a)  == [tag |-> "array",  obj |-> EmptyMap,
               arr |-> [i \in 1..Len(a) |-> Map(a[i])]]          \* of objects

\* a JSON object decoded into a struct field: absent keeps the zero value
fieldOK(o, key, kind) == key \in DOMAIN o => o[key].jtype = kind
numField(o, key) == IF key \in DOMAIN o /\ o[key].jtype = "number" THEN o[key].num ELSE 0
strField(o, key) == IF key \in DOMAIN o /\ o[key].jtype = "string" THEN o[key].str ELSE ""

decodeError(msg) == <<[type |-> "jsonError", msg |-> msg, api |-> NoAPIError]>>

\* Decode(&apiErr)
decodeAPIError(body) ==
    CASE body.tag = "eof"     -> [err |-> decodeError("EOF"), v |-> NoAPIError]
      [] body.tag = "invalid" -> [err |-> decodeError("invalid character"), v |-> NoAPIError]
      [] body.tag = "null"    -> [err |-> nil, v |-> NoAPIError]
      [] body.tag = "array"   -> [err |-> decodeError("cannot unmarshal array"),
                                v |-> NoAPIError]
      [] body.tag = "object"  ->
            [err |-> IF /\ fieldOK(body.obj, "status", "number")
                        /\ fieldOK(body.obj, "error", "string")
                        /\ fieldOK(body.obj, "message", "string")
                     THEN nil ELSE decodeError("cannot unmarshal field"),
             v |-> [Status  |-> numField(body.obj, "status"),
                    Err     |-> strField(body.obj, "error"),
                    Message |-> strField(body.obj, "message")]]

\* results of the public operations
NilResult == [kind |-> "nil", ID |-> 0, Name |-> "", items |-> <<>>]
CargoResponse(id) == [kind |-> "CargoResponse", ID |-> id, Name |-> "", items |-> <<>>]
Response(id, name) == [kind |-> "Response", ID |-> id, Name |-> name, items |-> <<>>]
ResponseList(items) == [kind |-> "list", ID |-> 0, Name |-> "", items |-> items]

\* Decode(result) for result *CargoResponse
decodeCargoResponse(body) ==
    CASE body.tag = "eof"     -> [err |-> decodeError("EOF"), v |-> CargoResponse(0)]
      [] body.tag = "invalid" -> [err |-> decodeError("invalid character"),
                                v |-> CargoResponse(0)]
      [] body.tag = "null"    -> [err |-> nil, v |-> CargoResponse(0)]
      [] body.tag = "array"   -> [err |-> decodeError("cannot unmarshal array"),
                                v |-> CargoResponse(0)]
      [] body.tag = "object"  ->
            [err |-> IF fieldOK(body.obj, "id", "number") THEN nil
                     ELSE decodeError("cannot unmarshal field"),
             v |-> CargoResponse(numField(body.obj, "id"))]

\* Decode(result) for result *[]Response (keys id, name) and
\* *[]ResponseContacts (keys contactId, face)
decodeList(body, idKey, nameKey) ==
    CASE body.tag = "eof"     -> [err |-> decodeError("EOF"), v |-> ResponseList(<<>>)]
      [] body.tag = "invalid" -> [err |-> decodeError("invalid character"),
                                v |-> ResponseList(<<>>)]
      [] body.tag = "null"    -> [err |-> nil, v |-> ResponseList(<<>>)]
      [] body.tag = "object"  -> [err |-> decodeError("cannot unmarshal object"),
                                v |-> ResponseList(<<>>)]
      [] body.tag = "array"   ->
            [err |-> IF \A i \in 1..Len(body.arr) :
                            /\ fieldOK(body.arr[i], idKey, "number")
                            /\ fieldOK(body.arr[i], nameKey, "string")
                     THEN nil ELSE decodeError("cannot unmarshal field"),
             v |-> ResponseList([i \in 1..Len(body.arr) |->
                        [ID   |-> numField(body.arr[i], idKey),
                         Name |-> strField(body.arr[i], nameKey)]])]

\* Decode(result), by the type result points to
decodeResult(body, shape) ==
    CASE shape = "CargoResponse"      -> decodeCargoResponse(body)
      [] shape = "[]Response"         -> decodeList(body, "id", "name")
      [] shape = "[]ResponseContacts" -> decodeList(body, "contactId", "face")

(***************************************************************************)
(* doRequest, post, get                                                    *)
(*                                                                         *)
(* rsp is what the transport's Do returns for the request.  Each operator  *)
(* yields [sent, err, v]: the requests handed to Do in order, the error    *)
(* returned, and the value left in *result.                                *)
(***************************************************************************)
NoResponse == [fail |-> FALSE, StatusCode |-> 0, Body |-> JEOF]

zeroValue(shape) ==
    IF shape = "CargoResponse" THEN CargoResponse(0) ELSE ResponseList(<<>>)

isSuccess_UpTo300(StatusCode) == ~(StatusCode < 200 \/ StatusCode > 300)

\* the negation of the test `resp.StatusCode < 200 || resp.StatusCode >= 300`
isSuccess(StatusCode) == ~(StatusCode < 200 \/ StatusCode >= 300)

handleResponse_StatusFromHTTP(c, req, shape, rsp) ==
    IF rsp.fail
    THEN [sent |-> <<req>>,
          err |-> wrapError("request failed", errorString("transport")),
          v |-> zeroValue(shape)]
    ELSE IF ~isSuccess(rsp.StatusCode)
         THEN [sent |-> <<req>>,
               err |-> IF decodeAPIError(rsp.Body).err # nil
                       THEN wrapError("failed to decode error response",
                                      decodeAPIError(rsp.Body).err)
                       ELSE APIError([decodeAPIError(rsp.Body).v
                                        EXCEPT !.Status = rsp.StatusCode]),
               v |-> zeroValue(shape)]
         ELSE [sent |-> <<req>>,
               err |-> IF decodeResult(rsp.Body, shape).err # nil
                       THEN wrapError("failed to decode response",
                                      decodeResult(rsp.Body, shape).err)
                       ELSE nil,
               v |-> decodeResult(rsp.Body, shape).v]

handleResponse_RetryOnFailure(c, req, shape, rsp) ==
    IF rsp.fail
    THEN [sent |-> <<req, req>>,
          err |-> wrapError("request failed", errorString("transport")),
          v |-> zeroValue(shape)]
    ELSE IF ~isSuccess(rsp.StatusCode)
         THEN [sent |-> <<req, req>>,
               err |-> IF decodeAPIError(rsp.Body).err # nil
                       THEN wrapError("failed to decode error response",
                                      decodeAPIError(rsp.Body).err)
                       ELSE APIError(decodeAPIError(rsp.Body).v),
               v |-> zeroValue(shape)]
         ELSE [sent |-> <<req>>,
               err |-> IF decodeResult(rsp.Body, shape).err # nil
                       THEN wrapError("failed to decode response",
                                      decodeResult(rsp.Body, shape).err)
                       ELSE nil,
               v |-> decodeResult(rsp.Body, shape).v]

handleResponse_IgnoreDecodeError(c, req, shape, rsp) ==
    IF rsp.fail
    THEN [sent |-> <<req>>,
          err |-> wrapError("request failed", errorString("transport")),
          v |-> zeroValue(shape)]
    ELSE IF ~isSuccess(rsp.StatusCode)
         THEN [sent |-> <<req>>,
               err |-> APIError(decodeAPIError(rsp.Body).v),
               v |-> zeroValue(shape)]
         ELSE [sent |-> <<req>>,
               err |-> nil,
               v |-> decodeResult(rsp.Body, shape).v]

\* doRequest from the return of c.http.Do on
handleResponse(c, req, shape, rsp) ==
    IF rsp.fail
    THEN [sent |-> <<req>>,
          err |-> wrapError("request failed", errorString("transport")),
          v |-> zeroValue(shape)]
    ELSE IF ~isSuccess(rsp.StatusCode)
         THEN [sent |-> <<req>>,
               err |-> IF decodeAPIError(rsp.Body).err # nil
                       THEN wrapError("failed to decode error response",
                                      decodeAPIError(rsp.Body).err)
                       ELSE APIError(decodeAPIError(rsp.Body).v),
               v |-> zeroValue(shape)]
         ELSE [sent |-> <<req>>,
               err |-> IF decodeResult(rsp.Body, shape).err # nil
                       THEN wrapError("failed to decode response",
                                      decodeResult(rsp.Body, shape).err)
                       ELSE nil,
               v |-> decodeResult(rsp.Body, shape).v]

doRequest(c, req, shape, rsp) == handleResponse(c, setRequestFields(c, req), shape, rsp)

post(c, ctx, path, body, shape, rsp) ==
    IF MarshalFails(body)
    THEN [sent |-> <<>>,
          err |-> wrapError("failed to marshal request body",
                            errorString("json: unsupported value")),
          v |-> zeroValue(shape)]
    ELSE LET n == NewRequestWithContext(ctx, "POST", c.config.BaseURL, path,
                                        Body(MarshalCargoRequest(body)))
         IN  IF n.err # nil
             THEN [sent |-> <<>>,
                   err |-> wrapError("failed to create request", n.err),
                   v |-> zeroValue(shape)]
             ELSE doRequest(c, n.req, shape, rsp)

get(c, ctx, path, shape, rsp) ==
    LET n == NewRequestWithContext(ctx, "GET", c.config.BaseURL, path, NoBody)
    IN  IF n.err # nil
        THEN [sent |-> <<>>,
              err |-> wrapError("failed to create request", n.err),
              v |-> zeroValue(shape)]
        ELSE doRequest(c, n.req, shape, rsp)

(***************************************************************************)
(* The public operations: [sent, result, err]                              *)
(***************************************************************************)
failed_Unwrapped(o, phrase) ==
    [sent |-> o.sent, result |-> NilResult, err |-> o.err]

\* return nil, fmt.Errorf(phrase + ": %w", err)
failed(o, phrase) ==
    [sent |-> o.sent, result |-> NilResult, err |-> wrapError(phrase, o.err)]

CreateCargo(c, ctx, req, rsp) ==
    IF Validate(req) # nil
    THEN [sent |-> <<>>, result |-> NilResult,
          err |-> wrapError("invalid request", Validate(req))]
    ELSE LET o == post(c, ctx, pathCargo, req, "CargoResponse", rsp)
         IN  IF o.err # nil THEN failed(o, "create cargo request failed")
             ELSE [sent |-> o.sent, result |-> o.v, err |-> nil]

GetContacts(c, ctx, rsp) ==
    LET o == get(c, ctx, pathContacts, "[]ResponseContacts", rsp)
    IN  IF o.err # nil THEN failed(o, "get contacts failed")
        ELSE [sent |-> o.sent, result |-> o.v, err |-> nil]

RECURSIVE lastByName(_, _)
lastByName(items, name) ==
    IF items = <<>> THEN NilResult
    ELSE IF items[Len(items)].Name = name
         THEN Response(items[Len(items)].ID, items[Len(items)].Name)
         ELSE lastByName(SubSeq(items, 1, Len(items) - 1), name)

\* for _, v := range resp { if v.Name == name { return &Response{...} } }
RECURSIVE firstByName(_, _)
firstByName(items, name) ==
    IF items = <<>> THEN NilResult
    ELSE IF Head(items).Name = name
         THEN Response(Head(items).ID, Head(items).Name)
         ELSE firstByName(Tail(items), name)

GetAreas(c, ctx, area, rsp) ==
    LET o == get(c, ctx, pathAreas, "[]Response", rsp)
    IN  IF o.err # nil THEN failed(o, "get areas failed")
        ELSE [sent |-> o.sent, result |-> firstByName(o.v.items, area), err |-> nil]

GetLoadTypes(c, ctx, rsp) ==
    LET o == get(c, ctx, pathLoadTypes, "[]Response", rsp)
    IN  IF o.err # nil THEN failed(o, "get load types failed")
        ELSE [sent |-> o.sent, result |-> o.v, err |-> nil]

GetPaymentTypes(c, ctx, rsp) ==
    LET o == get(c, ctx, pathTypesPayment, "[]Response", rsp)
    IN  IF o.err # nil THEN failed(o, "get payment types failed")
        ELSE [sent |-> o.sent, result |-> o.v, err |-> nil]

GetPackageTypes(c, ctx, rsp) ==
    LET o == get(c, ctx, pathPackage, "[]Response", rsp)
    IN  IF o.err # nil THEN failed(o, "get package types failed")
        ELSE [sent |-> o.sent, result |-> o.v, err |-> nil]

GetBodyTypes(c, ctx, body, rsp) ==
    LET o == get(c, ctx, pathTypes, "[]Response", rsp)
    IN  IF o.err # nil THEN failed(o, "get body types failed")
        ELSE [sent |-> o.sent, result |-> firstByName(o.v.items, body), err |-> nil]

GetPaymentMoments(c, ctx, rsp) ==
    LET o == get(c, ctx, pathMoments, "[]Response", rsp)
    IN  IF o.err # nil THEN failed(o, "get payment moments failed")
        ELSE [sent |-> o.sent, result |-> o.v, err |-> nil]

GetCurrencies(c, ctx, currency, rsp) ==
    LET o == get(c, ctx, pathCurrencies, "[]Response", rsp)
    IN  IF o.err # nil THEN failed(o, "get currencies failed")
        ELSE [sent |-> o.sent, result |-> firstByName(o.v.items, currency), err |-> nil]

GetUnits(c, ctx, rsp) ==
    LET o == get(c, ctx, pathUnits, "[]Response", rsp)
    IN  IF o.err # nil THEN failed(o, "get units failed")
        ELSE [sent |-> o.sent, result |-> o.v, err |-> nil]

\* a call k = [op, ctx, req, name] of a public operation, run against rsp
Outcome(c, k, rsp) ==
    CASE k.op = "CreateCargo"       -> CreateCargo(c, k.ctx, k.req, rsp)
      [] k.op = "GetContacts"       -> GetContacts(c, k.ctx, rsp)
      [] k.op = "GetAreas"          -> GetAreas(c, k.ctx, k.name, rsp)
      [] k.op = "GetLoadTypes"      -> GetLoadTypes(c, k.ctx, rsp)
      [] k.op = "GetPaymentTypes"   -> GetPaymentTypes(c, k.ctx, rsp)
      [] k.op = "GetPackageTypes"   -> GetPackageTypes(c, k.ctx, rsp)
      [] k.op = "GetBodyTypes"      -> GetBodyTypes(c, k.ctx, k.name, rsp)
      [] k.op = "GetPaymentMoments" -> GetPaymentMoments(c, k.ctx, rsp)
      [] k.op = "GetCurrencies"     -> GetCurrencies(c, k.ctx, k.name, rsp)
      [] k.op = "GetUnits"          -> GetUnits(c, k.ctx, rsp)

(***************************************************************************)
(* Inputs                                                                  *)
(***************************************************************************)
BaseURLs  == {"", "http://localhost:8080", "http://proxy/lardi?language=en", "://bad"}
APIKeys   == {"", "secret-key"}
Timeouts  == {0, 5}
Languages == {"", "ru", "uk"}

Configs == [BaseURL : BaseURLs, APIKey : APIKeys, Timeout : Timeouts,
            Language : Languages]

\* the configuration of the README: only an API key and a language
ReadmeConfig == [BaseURL |-> "", APIKey |-> "secret-key", Timeout |-> 0,
                 Language |-> "ru"]

Contexts == {"nil", "background"}

Kyiv == [TownName |-> "Kyiv", AreaID |-> 23, CountrySign |-> "UA", RegionID |-> 0,
         PostCodes |-> <<>>]
Lviv == [TownName |-> "Lviv", AreaID |-> 27, CountrySign |-> "UA", RegionID |-> 4,
         PostCodes |-> <<"79000">>]

WaypointLists == {<<>>, <<Kyiv>>, <<Lviv, Kyiv>>}

\* a non-zero value for each optional field
SetCargoRequest ==
    [ContactID |-> 7, DateFrom |-> "2024-11-10", DateTo |-> "2024-11-11",
     PaymentValue |-> 1000, PaymentCurrencyID |-> 1, PaymentUnitID |-> 2,
     PaymentMomentID |-> 3, CargoBodyTypeIDs |-> <<34>>,
     CargoPackaging |-> <<[ID |-> 0, Count |-> 0], [ID |-> 1, Count |-> 10]>>,
     PaymentForms |-> <<[ID |-> 2, Vat |-> FALSE], [ID |-> 0, Vat |-> TRUE]>>,
     LorryAmount |-> 1, LoadTypes |-> <<24, 25>>, Groupage |-> TRUE,
     ContentName |-> "electronics", SizeMass |-> Float(1000), SizeVolume |-> Float(-1),
     WaypointListSource |-> <<>>, WaypointListTarget |-> <<>>]

\* the request whose optional fields in S are set and whose others are zero
MakeCargoRequest(S, src, tgt) ==
    [f \in DOMAIN ZeroCargoRequest |->
        CASE f = "WaypointListSource" -> src
          [] f = "WaypointListTarget" -> tgt
          [] OTHER -> IF f \in S THEN SetCargoRequest[f] ELSE ZeroCargoRequest[f]]

FieldSets ==
    {{}, OptionalFields} \cup {{f} : f \in OptionalFields}
                         \cup {OptionalFields \ {f} : f \in OptionalFields}

NaNCargoRequests ==
    {[MakeCargoRequest({}, <<Kyiv>>, <<Lviv>>) EXCEPT !.SizeMass = NaN],
     [MakeCargoRequest({}, <<>>, <<Lviv>>) EXCEPT !.SizeMass = NaN],
     [MakeCargoRequest({"DateTo"}, <<Kyiv>>, <<>>) EXCEPT !.SizeVolume = NaN],
     [MakeCargoRequest(OptionalFields, <<Kyiv>>, <<Lviv>>) EXCEPT !.SizeVolume = NaN]}

\* every combination of one field set with the waypoint lists
AllCargoRequests ==
    {MakeCargoRequest(S, src, tgt) : S \in FieldSets, src \in WaypointLists,
                                     tgt \in WaypointLists}
    \cup NaNCargoRequests

\* a few of them, for the runs that vary the configuration and the response
SomeCargoRequests ==
    {MakeCargoRequest(S, src, tgt) : S \in {{}, {"DateFrom", "SizeMass"}},
                                     src \in {<<>>, <<Kyiv>>},
                                     tgt \in {<<>>, <<Lviv>>}}
    \cup {[MakeCargoRequest({}, <<Kyiv>>, <<Lviv>>) EXCEPT !.SizeMass = NaN],
          [MakeCargoRequest({}, <<Kyiv>>, <<>>) EXCEPT !.SizeMass = NaN]}

Names == {"a", "A", "none"}

ErrorBody ==
    JObject("status" :> Num(400) @@ "error" :> Str("bad_request")
            @@ "message" :> Str("invalid date"))

ReferenceBody ==
    JArray(<<"id" :> Num(1) @@ "name" :> Str("a"),
             "id" :> Num(2) @@ "name" :> Str("a"),
             "id" :> Num(3) @@ "name" :> Str("A")>>)

Bodies ==
    {JEOF, JInvalid, JNull,
     JObject(EmptyMap),
     JObject("id" :> Num(42)),
     JObject("id" :> Str("42")),
     ErrorBody,
     JObject("status" :> Str("400") @@ "error" :> Str("bad_request")),
     JObject("message" :> Str("rate limited")),
     JArray(<<>>),
     ReferenceBody,
     JArray(<<"id" :> Num(3) @@ "name" :> Str("A"), "id" :> Str("x")>>),
     JArray(<<"contactId" :> Num(5) @@ "face" :> Str("Ann")>>)}

StatusCodes == {199, 200, 201, 204, 299, 300, 400}

Responses ==
    {[fail |-> TRUE, StatusCode |-> 0, Body |-> JEOF]}
    \cup [fail : {FALSE}, StatusCode : StatusCodes, Body : Bodies]

\* a few of them, for the runs with several callers
SomeResponses ==
    {[fail |-> TRUE, StatusCode |-> 0, Body |-> JEOF],
     [fail |-> FALSE, StatusCode |-> 201, Body |-> JObject("id" :> Num(42))],
     [fail |-> FALSE, StatusCode |-> 200, Body |-> ReferenceBody],
     [fail |-> FALSE, StatusCode |-> 400, Body |-> ErrorBody]}

(***************************************************************************)
(* State                                                                   *)
(***************************************************************************)
VARIABLES
    givenConfig,   \* the Config the caller passed to NewClient
    client,        \* the Client: [config, http]
    pc,            \* per caller: "idle", "inDo" (waiting for Do), "returned"
    call,          \* per caller: the operation called and its arguments
    sent,          \* per caller: the request handed to the transport
    doCount,       \* per caller: invocations of Do by the current call
    response,      \* per caller: what Do returned
    ret            \* per caller: the (result, err) the operation returned

vars == <<givenConfig, client, pc, call, sent, doCount, response, ret>>

NoCall == [op |-> "", ctx |-> "", req |-> ZeroCargoRequest, name |-> ""]
NoRet  == [result |-> NilResult, err |-> nil]

InitWith(configs) ==
    /\ givenConfig \in configs
    /\ client = NewClient(givenConfig)
    /\ pc = [p \in Callers |-> "idle"]
    /\ call = [p \in Callers |-> NoCall]
    /\ sent = [p \in Callers |-> NoRequest]
    /\ doCount = [p \in Callers |-> 0]
    /\ response = [p \in Callers |-> NoResponse]
    /\ ret = [p \in Callers |-> NoRet]

Call_SharedRequest(p, k) ==
    /\ pc[p] = "idle"
    /\ LET o == Outcome(client, k, NoResponse)
       IN  /\ call' = [call EXCEPT ![p] = k]
           /\ IF o.sent = <<>>
              THEN /\ pc' = [pc EXCEPT ![p] = "returned"]
                   /\ ret' = [ret EXCEPT ![p] = [result |-> o.result, err |-> o.err]]
                   /\ UNCHANGED <<sent, doCount>>
              ELSE /\ pc' = [pc EXCEPT ![p] = "inDo"]
                   /\ sent' = [q \in Callers |-> IF q = p \/ pc[q] = "inDo"
                                                 THEN o.sent[1] ELSE sent[q]]
                   /\ doCount' = [doCount EXCEPT ![p] = 1]
                   /\ UNCHANGED ret
    /\ UNCHANGED <<givenConfig, client, response>>

\* Caller p calls operation k.  The call runs up to the point where it hands
\* its request to Do, or returns at once if it fails before that.
Call(p, k) ==
    /\ pc[p] = "idle"
    /\ LET o == Outcome(client, k, NoResponse)
       IN  /\ call' = [call EXCEPT ![p] = k]
           /\ IF o.sent = <<>>
              THEN /\ pc' = [pc EXCEPT ![p] = "returned"]
                   /\ ret' = [ret EXCEPT ![p] = [result |-> o.result, err |-> o.err]]
                   /\ UNCHANGED <<sent, doCount>>
              ELSE /\ pc' = [pc EXCEPT ![p] = "inDo"]
                   /\ sent' = [sent EXCEPT ![p] = o.sent[1]]
                   /\ doCount' = [doCount EXCEPT ![p] = 1]
                   /\ UNCHANGED ret
    /\ UNCHANGED <<givenConfig, client, response>>

CallCreateCargo(p, ctxs, reqs) ==
    \E ctx \in ctxs, r \in reqs :
        Call(p, [op |-> "CreateCargo", ctx |-> ctx, req |-> r, name |-> ""])

CallList(p, ctxs, op) ==
    \E ctx \in ctxs :
        Call(p, [op |-> op, ctx |-> ctx, req |-> ZeroCargoRequest, name |-> ""])

CallLookup(p, ctxs, op, names) ==
    \E ctx \in ctxs, n \in names :
        Call(p, [op |-> op, ctx |-> ctx, req |-> ZeroCargoRequest, name |-> n])

CallGetContacts(p, ctxs)       == CallList(p, ctxs, "GetContacts")
CallGetLoadTypes(p, ctxs)      == CallList(p, ctxs, "GetLoadTypes")
CallGetPaymentTypes(p, ctxs)   == CallList(p, ctxs, "GetPaymentTypes")
CallGetPackageTypes(p, ctxs)   == CallList(p, ctxs, "GetPackageTypes")
CallGetPaymentMoments(p, ctxs) == CallList(p, ctxs, "GetPaymentMoments")
CallGetUnits(p, ctxs)          == CallList(p, ctxs, "GetUnits")
CallGetAreas(p, ctxs, names)      == CallLookup(p, ctxs, "GetAreas", names)
CallGetBodyTypes(p, ctxs, names)  == CallLookup(p, ctxs, "GetBodyTypes", names)
CallGetCurrencies(p, ctxs, names) == CallLookup(p, ctxs, "GetCurrencies", names)

\* The transport's Do returns rsp to caller p's call, which runs to its end.
DoReturns(p, rsps) ==
    /\ pc[p] = "inDo"
    /\ \E rsp \in rsps :
        LET o == Outcome(client, call[p], rsp)
        IN  /\ response' = [response EXCEPT ![p] = rsp]
            /\ doCount' = [doCount EXCEPT ![p] = Len(o.sent)]
            /\ ret' = [ret EXCEPT ![p] = [result |-> o.result, err |-> o.err]]
    /\ pc' = [pc EXCEPT ![p] = "returned"]
    /\ UNCHANGED <<givenConfig, client, call, sent>>

\* Caller p has taken the result and is ready for its next call.
Finish(p) ==
    /\ pc[p] = "returned"
    /\ pc' = [pc EXCEPT ![p] = "idle"]
    /\ call' = [call EXCEPT ![p] = NoCall]
    /\ sent' = [sent EXCEPT ![p] = NoRequest]
    /\ doCount' = [doCount EXCEPT ![p] = 0]
    /\ response' = [response EXCEPT ![p] = NoResponse]
    /\ ret' = [ret EXCEPT ![p] = NoRet]
    /\ UNCHANGED <<givenConfig, client>>

Step(p, ctxs, reqs, names, rsps) ==
    \/ CallCreateCargo(p, ctxs, reqs)
    \/ CallGetContacts(p, ctxs)
    \/ CallGetAreas(p, ctxs, names)
    \/ CallGetLoadTypes(p, ctxs)
    \/ CallGetPaymentTypes(p, ctxs)
    \/ CallGetPackageTypes(p, ctxs)
    \/ CallGetBodyTypes(p, ctxs, names)
    \/ CallGetPaymentMoments(p, ctxs)
    \/ CallGetCurrencies(p, ctxs, names)
    \/ CallGetUnits(p, ctxs)
    \/ DoReturns(p, rsps)
    \/ Finish(p)

\* One caller, any configuration, any response.
Init == InitWith(Configs)
Next == Step(1, Contexts, SomeCargoRequests, Names, Responses)
Spec == Init /\ [][Next]_vars

\* One caller creating cargo proposals, over all the cargo requests.
InitCargo == InitWith({ReadmeConfig, [ReadmeConfig EXCEPT !.BaseURL = "://bad"]})
NextCargo ==
    \/ CallCreateCargo(1, Contexts, AllCargoRequests)
    \/ DoReturns(1, SomeResponses)
    \/ Finish(1)
SpecCargo == InitCargo /\ [][NextCargo]_vars

\* Several callers sharing the one Client.
ConcCargoRequests ==
    {MakeCargoRequest({"DateFrom"}, <<Kyiv>>, <<Lviv>>),
     MakeCargoRequest(OptionalFields, <<Lviv, Kyiv>>, <<Kyiv>>)}
InitConc == InitWith({ReadmeConfig})
NextConc ==
    \E p \in Callers : Step(p, {"background"}, ConcCargoRequests, {"a"}, SomeResponses)
SpecConc == InitConc /\ [][NextConc]_vars

(***************************************************************************)
(* Properties                                                              *)
(***************************************************************************)
\* caller p's call has returned after Do gave it an HTTP response
GotResponse(p) == pc[p] = "returned" /\ doCount[p] >= 1 /\ ~response[p].fail

OutsideSuccessRange(code) == code <= 199 \/ code >= 300

\* the frames of an error chain that are *APIError values
APIErrorFrames(err) == {i \in 1..Len(err) : err[i].type = "APIError"}

EmptyWaypoints(r) == Len(r.WaypointListSource) = 0 \/ Len(r.WaypointListTarget) = 0

\* C1: a CreateCargo call whose request has an empty waypointListSource or an
\* empty waypointListTarget has returned a nil result and a validation error
\* without handing any request to the transport, whatever its other fields,
\* its context and the client's base URL are.
C1_ValidationBeforeNetwork ==
    \A p \in Callers :
        (pc[p] # "idle" /\ call[p].op = "CreateCargo" /\ EmptyWaypoints(call[p].req))
        => /\ pc[p] = "returned"
           /\ doCount[p] = 0
           /\ sent[p] = NoRequest
           /\ ret[p].result = NilResult
           /\ Len(ret[p].err) = 2
           /\ ret[p].err[1].msg = "invalid request"
           /\ ret[p].err[2].msg = (IF Len(call[p].req.WaypointListSource) = 0
                                   THEN "waypointListSource is required"
                                   ELSE "waypointListTarget is required")

\* C1 witness: a request with a source waypoint, no target waypoint, every
\* optional field set and a NaN-free body was refused before any request was sent
C1_Witness ==
    \E p \in Callers :
        /\ pc[p] = "returned" /\ call[p].op = "CreateCargo"
        /\ Len(call[p].req.WaypointListSource) > 0
        /\ Len(call[p].req.WaypointListTarget) = 0
        /\ call[p].req.ContactID # 0
        /\ doCount[p] = 0
        /\ ret[p].err # nil

C3_ReturnedErrorIsAPIError ==
    \A p \in Callers :
        (/\ GotResponse(p)
         /\ OutsideSuccessRange(response[p].StatusCode)
         /\ decodeAPIError(response[p].Body).err = nil)
        => /\ ret[p].err # nil
           /\ ret[p].err[1].type = "APIError"

InSuccessRange(code) == 200 <= code /\ code <= 299

\* the type the operation passes to doRequest as result
ShapeOf(op) ==
    CASE op = "CreateCargo" -> "CargoResponse"
      [] op = "GetContacts" -> "[]ResponseContacts"
      [] OTHER              -> "[]Response"

LookupOps == {"GetAreas", "GetBodyTypes", "GetCurrencies"}

HasFrame(err, msg) == \E i \in 1..Len(err) : err[i].msg = msg

\* C4: when Do returned a status in [200,300) and the body decodes into the
\* result type of the operation, the operation returned no error and a result
\* of its shape taken from the body; the status code alone chooses the branch:
\* a status in [200,300) never yields an APIError or an error-body decode
\* error, and 199, 300 and every other status yield an error and a nil result.
C4_SuccessRange ==
    \A p \in Callers :
        GotResponse(p) =>
            LET code == response[p].StatusCode
                body == response[p].Body
                op   == call[p].op
            IN  /\ (InSuccessRange(code) /\ decodeResult(body, ShapeOf(op)).err = nil)
                   => /\ ret[p].err = nil
                      /\ op = "CreateCargo" =>
                            /\ ret[p].result.kind = "CargoResponse"
                            /\ ret[p].result.ID = numField(body.obj, "id")
                      /\ op \notin LookupOps \cup {"CreateCargo"} =>
                            /\ ret[p].result.kind = "list"
                            /\ Len(ret[p].result.items) = Len(body.arr)
                      /\ op \in LookupOps => ret[p].result.kind \in {"nil", "Response"}
                /\ InSuccessRange(code)
                   => /\ APIErrorFrames(ret[p].err) = {}
                      /\ ~HasFrame(ret[p].err, "failed to decode error response")
                /\ ~InSuccessRange(code)
                   => /\ ret[p].err # nil
                      /\ ret[p].result = NilResult
                      /\ \/ APIErrorFrames(ret[p].err) # {}
                         \/ HasFrame(ret[p].err, "failed to decode error response")

\* C4 witness: CreateCargo got status 204 with the body {"id": 42} and
\* returned CargoResponse{ID: 42} and no error
C4_Witness ==
    \E p \in Callers :
        /\ GotResponse(p)
        /\ call[p].op = "CreateCargo"
        /\ response[p].StatusCode = 204
        /\ ret[p].err = nil
        /\ ret[p].result = CargoResponse(42)

\* C5: every request handed to the transport carries a language query
\* parameter equal to the configured language, the header Authorization
\* equal to the configured API key with nothing added, and the header
\* Content-Type: application/json.
C5_RequestFields ==
    \A p \in Callers :
        (pc[p] = "inDo" \/ doCount[p] >= 1) =>
            /\ DOMAIN sent[p].header = {"Authorization", "Content-Type"}
            /\ sent[p].header["Authorization"] = givenConfig.APIKey
            /\ sent[p].header["Content-Type"] = "application/json"
            /\ "language" \in DOMAIN sent[p].query
            /\ \E i \in 1..Len(sent[p].query["language"]) :
                  sent[p].query["language"][i] =
                      (IF givenConfig.Language = "" THEN "uk" ELSE givenConfig.Language)
            /\ client.config.Language =
                  (IF givenConfig.Language = "" THEN "uk" ELSE givenConfig.Language)

\* C5 witness: a POST is in the transport's hands with the key and language "ru"
C5_Witness ==
    \E p \in Callers :
        /\ pc[p] = "inDo"
        /\ sent[p].method = "POST"
        /\ givenConfig.APIKey = "secret-key"
        /\ sent[p].header["Authorization"] = "secret-key"
        /\ sent[p].query["language"] = <<"ru">>

\* the records of a decoded reference list whose name is the one asked for
Matches(body, name) ==
    {i \in 1..Len(body.arr) : strField(body.arr[i], "name") = name}

ReachesTransport(k, c) ==
    /\ k.ctx # "nil"
    /\ c.config.BaseURL # "://bad"
    /\ k.op = "CreateCargo" =>
          /\ ~EmptyWaypoints(k.req)
          /\ ~k.req.SizeMass.nan
          /\ ~k.req.SizeVolume.nan

\* C7: a call invokes the transport's Do at most once: exactly once when it
\* passes validation and request construction, never otherwise, and not again
\* after a transport failure, a status outside [200,300) or a decode failure.
C7_SingleAttempt ==
    \A p \in Callers :
        /\ doCount[p] <= 1
        /\ pc[p] = "inDo" => doCount[p] = 1
        /\ pc[p] = "returned" =>
              doCount[p] = (IF ReachesTransport(call[p], client) THEN 1 ELSE 0)

\* C7 witness: the transport failed and the call returned after one attempt
C7_Witness ==
    \E p \in Callers :
        /\ pc[p] = "returned"
        /\ response[p].fail
        /\ doCount[p] = 1
        /\ ret[p].err # nil

\* the part of the state that belongs to caller p's call
Local(p) == <<pc[p], call[p], sent[p], doCount[p], response[p], ret[p]>>

PathOf(op) ==
    CASE op = "CreateCargo"       -> "/v2/proposals/my/add/cargo"
      [] op = "GetCurrencies"     -> "/v2/references/currencies"
      [] op = "GetUnits"          -> "/v2/references/payment/units"
      [] op = "GetPaymentMoments" -> "/v2/references/payment/moments"
      [] op = "GetBodyTypes"      -> "/v2/references/body/types"
      [] op = "GetPackageTypes"   -> "/v2/references/cargo/package"
      [] op = "GetPaymentTypes"   -> "/v2/references/payment/types"
      [] op = "GetLoadTypes"      -> "/v2/references/load/types"
      [] op = "GetAreas"          -> "/v2/references/areas"
      [] op = "GetContacts"       -> "/v2/users/user/contacts"

\* the request and the result of caller p's call are those of its own
\* operation, arguments and transport response
OwnRequestAndResult(p) ==
    /\ (pc[p] = "inDo" \/ doCount[p] >= 1) =>
          /\ sent[p].loc = client.config.BaseURL \o PathOf(call[p].op)
          /\ sent[p].method = (IF call[p].op = "CreateCargo" THEN "POST" ELSE "GET")
          /\ sent[p].body.present = (call[p].op = "CreateCargo")
          /\ call[p].op = "CreateCargo" =>
                /\ ("dateFrom" \in DOMAIN sent[p].body.json) = (call[p].req.DateFrom # "")
                /\ ("contactId" \in DOMAIN sent[p].body.json) = (call[p].req.ContactID # 0)
                /\ Len(sent[p].body.json["waypointListSource"]) =
                      Len(call[p].req.WaypointListSource)
    /\ (pc[p] = "returned" /\ doCount[p] >= 1) =>
          /\ ret[p].result = Outcome(client, call[p], response[p]).result
          /\ ret[p].err = Outcome(client, call[p], response[p]).err
          /\ response[p].fail => HasFrame(ret[p].err, "request failed")
          /\ (~response[p].fail /\ response[p].StatusCode = 400) =>
                APIErrorFrames(ret[p].err) # {}
          /\ (~response[p].fail /\ response[p].StatusCode \in {200, 201}) =>
                APIErrorFrames(ret[p].err) = {}

\* C8: under any interleaving of concurrent calls on one Client, no step
\* writes the client's config or transport handle, a step of one call changes
\* nothing of any other call, and each call's request and result are those of
\* its own arguments and its own transport response.
C8_ConcurrentCallsIndependent ==
    /\ [](\A p \in Callers : OwnRequestAndResult(p))
    /\ [][/\ client' = client
          /\ givenConfig' = givenConfig
          /\ Cardinality({p \in Callers : Local(p)' # Local(p)}) <= 1]_vars

\* C8 witness: two calls of different operations are in the transport at once
C8_Witness ==
    \E p, q \in Callers :
        /\ p # q
        /\ pc[p] = "inDo" /\ pc[q] = "inDo"
        /\ call[p].op = "CreateCargo"
        /\ call[q].op = "GetCurrencies"
        /\ sent[p] # sent[q]

\* C9: NewClient stores the given configuration with exactly three defaults:
\* an empty BaseURL becomes "https://api.lardi-trans.com", a zero Timeout
\* becomes 30 seconds, an empty Language becomes "uk"; every other value,
\* the API key included, is stored as given, and the transport's timeout is
\* the stored one.
C9_Defaults ==
    /\ client.config.BaseURL = (IF givenConfig.BaseURL = ""
                                THEN "https://api.lardi-trans.com"
                                ELSE givenConfig.BaseURL)
    /\ client.config.Timeout = (IF givenConfig.Timeout = 0 THEN 30
                                ELSE givenConfig.Timeout)
    /\ client.config.Language = (IF givenConfig.Language = "" THEN "uk"
                                 ELSE givenConfig.Language)
    /\ client.config.APIKey = givenConfig.APIKey
    /\ client.http.Timeout = client.config.Timeout

\* C9 witness: a client constructed with only an API key, in use
C9_Witness ==
    /\ givenConfig = [BaseURL |-> "", APIKey |-> "secret-key", Timeout |-> 0,
                      Language |-> ""]
    /\ client.config = [BaseURL |-> "https://api.lardi-trans.com",
                        APIKey |-> "secret-key", Timeout |-> 30, Language |-> "uk"]
    /\ \E p \in Callers : pc[p] = "returned"

\* the JSON key of each optional field of CargoRequest
JSONKey ==
    [f \in OptionalFields |->
        CASE f = "ContactID"         -> "contactId"
          [] f = "DateFrom"          -> "dateFrom"
          [] f = "DateTo"            -> "dateTo"
          [] f = "PaymentValue"      -> "paymentPrice"
          [] f = "PaymentCurrencyID" -> "paymentCurrencyId"
          [] f = "PaymentUnitID"     -> "paymentUnitId"
          [] f = "PaymentMomentID"   -> "paymentMomentId"
          [] f = "CargoBodyTypeIDs"  -> "cargoBodyTypeIds"
          [] f = "CargoPackaging"    -> "cargoPackaging"
          [] f = "PaymentForms"      -> "paymentForms"
          [] f = "LorryAmount"       -> "lorryAmount"
          [] f = "LoadTypes"         -> "loadTypes"
          [] f = "Groupage"          -> "groupage"
          [] f = "ContentName"       -> "contentName"
          [] f = "SizeMass"          -> "sizeMass"
          [] f = "SizeVolume"        -> "sizeVolume"]

\* C10: the payload CreateCargo sends for a request that passed validation
\* has a key for every optional field whose value is not the zero value and
\* no key for an optional field whose value is zero (0, false, "", empty
\* list), inside the elements of paymentForms and cargoPackaging as well, and
\* it always has waypointListSource and waypointListTarget.
C10_OmitZeroFields ==
    \A p \in Callers :
        ((pc[p] = "inDo" \/ doCount[p] >= 1) /\ call[p].op = "CreateCargo") =>
            LET r    == call[p].req
                json == sent[p].body.json
            IN  /\ sent[p].body.present
                /\ \A f \in OptionalFields :
                      (JSONKey[f] \in DOMAIN json) <=> (r[f] # ZeroCargoRequest[f])
                /\ DOMAIN json \subseteq
                      {JSONKey[f] : f \in OptionalFields}
                          \cup {"waypointListSource", "waypointListTarget"}
                /\ "waypointListSource" \in DOMAIN json
                /\ "waypointListTarget" \in DOMAIN json
                /\ Len(json["waypointListSource"]) = Len(r.WaypointListSource)
                /\ Len(json["waypointListTarget"]) = Len(r.WaypointListTarget)
                /\ r.ContentName # "" => json["contentName"] = r.ContentName
                /\ r.PaymentValue # 0 => json["paymentPrice"] = r.PaymentValue
                /\ \A i \in 1..Len(r.PaymentForms) :
                      /\ ("id" \in DOMAIN json["paymentForms"][i]) <=>
                            (r.PaymentForms[i].ID # 0)
                      /\ ("vat" \in DOMAIN json["paymentForms"][i]) <=>
                            r.PaymentForms[i].Vat
                /\ \A i \in 1..Len(r.CargoPackaging) :
                      /\ ("id" \in DOMAIN json["cargoPackaging"][i]) <=>
                            (r.CargoPackaging[i].ID # 0)
                      /\ ("count" \in DOMAIN json["cargoPackaging"][i]) <=>
                            (r.CargoPackaging[i].Count # 0)

\* C10 witness: a payload was sent for a request with only DateTo set
C10_Witness ==
    \E p \in Callers :
        /\ pc[p] = "inDo"
        /\ call[p].op = "CreateCargo"
        /\ call[p].req.DateTo # ""
        /\ call[p].req.DateFrom = ""
        /\ DOMAIN sent[p].body.json =
              {"dateTo", "waypointListSource", "waypointListTarget"}

\* the frames of an error chain that come from encoding/json
JSONErrorFrames(err) == {i \in 1..Len(err) : err[i].type = "jsonError"}

\* a field of a JSON object that is present with a value of another type
Mistyped(o, key, kind) == key \in DOMAIN o /\ o[key].jtype # kind

\* a body that is not an error record: empty, not JSON, or of the wrong shape
NotAnErrorRecord(body) ==
    \/ body.tag = "eof"
    \/ body.tag = "invalid"
    \/ body.tag = "array"
    \/ /\ body.tag = "object"
       /\ \/ Mistyped(body.obj, "status", "number")
          \/ Mistyped(body.obj, "error", "string")
          \/ Mistyped(body.obj, "message", "string")

\* a body that is not of the result shape: empty, not JSON, an array where an
\* object is expected or the reverse, or a field of the wrong type
NotOfResultShape(body, shape) ==
    \/ body.tag = "eof"
    \/ body.tag = "invalid"
    \/ /\ shape = "CargoResponse"
       /\ \/ body.tag = "array"
          \/ body.tag = "object" /\ Mistyped(body.obj, "id", "number")
    \/ /\ shape = "[]Response"
       /\ \/ body.tag = "object"
          \/ /\ body.tag = "array"
             /\ \E i \in 1..Len(body.arr) :
                   \/ Mistyped(body.arr[i], "id", "number")
                   \/ Mistyped(body.arr[i], "name", "string")
    \/ /\ shape = "[]ResponseContacts"
       /\ \/ body.tag = "object"
          \/ /\ body.tag = "array"
             /\ \E i \in 1..Len(body.arr) :
                   \/ Mistyped(body.arr[i], "contactId", "number")
                   \/ Mistyped(body.arr[i], "face", "string")

\* C11: when Do returned a status outside [200,300) and the body is empty,
\* not JSON or of the wrong shape for an error record, the operation returned
\* a nil result and an error that is the decoder's error under "failed to
\* decode error response", with no APIError in its chain; when Do returned a
\* status in [200,300) and the body is empty, not JSON or of the wrong shape
\* for the operation's result, the operation returned a nil result and the
\* decoder's error under "failed to decode response", never a filled result.
C11_DecodeErrorOnBothBranches ==
    \A p \in Callers :
        GotResponse(p) =>
            LET code == response[p].StatusCode
                body == response[p].Body
                err  == ret[p].err
            IN  /\ (OutsideSuccessRange(code) /\ NotAnErrorRecord(body))
                   => /\ ret[p].result = NilResult
                      /\ HasFrame(err, "failed to decode error response")
                      /\ JSONErrorFrames(err) = {Len(err)}
                      /\ APIErrorFrames(err) = {}
                /\ (InSuccessRange(code) /\ NotOfResultShape(body, ShapeOf(call[p].op)))
                   => /\ ret[p].result = NilResult
                      /\ HasFrame(err, "failed to decode response")
                      /\ JSONErrorFrames(err) = {Len(err)}
                      /\ APIErrorFrames(err) = {}

\* C11 witness: under status 200 GetLoadTypes got a list whose first element
\* decodes and whose second has a string id, and ended in a decode error with
\* a nil result although the decoder had filled the first element
C11_Witness ==
    \E p \in Callers :
        /\ GotResponse(p)
        /\ response[p].StatusCode = 200
        /\ call[p].op = "GetLoadTypes"
        /\ response[p].Body.tag = "array"
        /\ Len(response[p].Body.arr) = 2
        /\ Mistyped(response[p].Body.arr[2], "id", "number")
        /\ decodeResult(response[p].Body, "[]Response").v.items[1].ID = 3
        /\ HasFrame(ret[p].err, "failed to decode response")
        /\ ret[p].result = NilResult

\* the phrase that names each public operation in its errors
OperationPhrase(op) ==
    CASE op = "CreateCargo"       -> "create cargo request failed"
      [] op = "GetContacts"       -> "get contacts failed"
      [] op = "GetAreas"          -> "get areas failed"
      [] op = "GetLoadTypes"      -> "get load types failed"
      [] op = "GetPaymentTypes"   -> "get payment types failed"
      [] op = "GetPackageTypes"   -> "get package types failed"
      [] op = "GetBodyTypes"      -> "get body types failed"
      [] op = "GetPaymentMoments" -> "get payment moments failed"
      [] op = "GetCurrencies"     -> "get currencies failed"
      [] op = "GetUnits"          -> "get units failed"

\* the first step of the pipeline that fails in caller p's call, told from
\* the call's inputs and the transport's answer; "none" when every step passes
Origin(p) ==
    IF call[p].op = "CreateCargo" /\ EmptyWaypoints(call[p].req)
    THEN "validation"
    ELSE IF /\ call[p].op = "CreateCargo"
            /\ (call[p].req.SizeMass.nan \/ call[p].req.SizeVolume.nan)
    THEN "serialization"
    ELSE IF call[p].ctx = "nil" \/ client.config.BaseURL = "://bad"
    THEN "request construction"
    ELSE IF response[p].fail
    THEN "transport"
    ELSE IF OutsideSuccessRange(response[p].StatusCode)
    THEN IF NotAnErrorRecord(response[p].Body) THEN "decode" ELSE "API rejection"
    ELSE IF NotOfResultShape(response[p].Body, ShapeOf(call[p].op))
    THEN "decode"
    ELSE "none"

\* the underlying cause is kept at the end of the chain
CauseKept(err, origin) ==
    LET cause == err[Len(err)]
    IN  CASE origin = "validation" ->
                /\ cause.type = "errorString"
                /\ cause.msg \in {"waypointListSource is required",
                                  "waypointListTarget is required"}
          [] origin = "serialization" ->
                /\ cause.type = "errorString"
                /\ HasFrame(err, "failed to marshal request body")
          [] origin = "request construction" ->
                /\ cause.type = "errorString"
                /\ HasFrame(err, "failed to create request")
          [] origin = "transport" ->
                /\ cause = errorString("transport")[1]
                /\ HasFrame(err, "request failed")
          [] origin = "decode" -> cause.type = "jsonError"
          [] origin = "API rejection" -> cause.type = "APIError"

\* no failure is swallowed and none is recovered from: a call returns an
\* error exactly when a step of its pipeline failed, and then a nil result
NothingSwallowed(p) ==
    /\ Origin(p) # "none" => (ret[p].err # nil /\ ret[p].result = NilResult)
    /\ Origin(p) = "none" => ret[p].err = nil

\* C12 as stated: every error a public operation returns, a validation error
\* included, has the phrase naming the operation as its outermost frame and
\* the cause at the end of its chain, and a call in which any step failed
\* returned a non-nil error and a nil result.
C12_EveryErrorNamesOperation ==
    \A p \in Callers :
        pc[p] = "returned" =>
            /\ NothingSwallowed(p)
            /\ ret[p].err # nil =>
                  /\ Len(ret[p].err) >= 2
                  /\ ret[p].err[1].type = "wrapError"
                  /\ ret[p].err[1].msg = OperationPhrase(call[p].op)
                  /\ CauseKept(ret[p].err, Origin(p))

\* C12 amended: every error a public operation returns is a wrapper with the
\* cause at the end of its chain; the wrapper of a validation error of
\* CreateCargo says "invalid request", the wrapper of every other error
\* (serialization, request construction, transport, decode, API rejection)
\* is the phrase naming the operation; and a call returned a non-nil error
\* and a nil result exactly when a step of its pipeline failed.
C12_ErrorsWrappedNoneSwallowed ==
    \A p \in Callers :
        pc[p] = "returned" =>
            /\ NothingSwallowed(p)
            /\ ret[p].err # nil =>
                  /\ Len(ret[p].err) >= 2
                  /\ ret[p].err[1].type = "wrapError"
                  /\ ret[p].err[1].msg = (IF Origin(p) = "validation"
                                          THEN "invalid request"
                                          ELSE OperationPhrase(call[p].op))
                  /\ \A i \in 2..Len(ret[p].err) :
                        ret[p].err[i].msg # OperationPhrase(call[p].op)
                  /\ CauseKept(ret[p].err, Origin(p))

\* C12 witness: a CreateCargo request that passed validation and holds a NaN
\* failed in json.Marshal, and the call returned the marshal error under
\* "create cargo request failed" without reaching the transport
C12_Witness ==
    \E p \in Callers :
        /\ pc[p] = "returned"
        /\ call[p].op = "CreateCargo"
        /\ Origin(p) = "serialization"
        /\ doCount[p] = 0
        /\ Len(ret[p].err) = 3
        /\ ret[p].err[1].msg = "create cargo request failed"
        /\ ret[p].err[2].msg = "failed to marshal request body"
        /\ ret[p].result = NilResult

====
